---------------------------- MODULE Spec2Model ----------------------------
(***************************************************************************)
(* Model of the MangaRecap AI processing code (the Python tools embedded   *)
(* in src/app/layout.tsx): panel detection, script composition, Ken Burns  *)
(* frame synthesis, video assembly and the complete pipeline function;     *)
(* of the page component Home in the same file; and of setup.sh in         *)
(* src/local-tools/setup.bat.                                              *)
(*                                                                         *)
(* Durations and times are integers counted in half-seconds (5 s = 10);    *)
(* the clock of the page component counts in seconds.                      *)
(* Zoom factors are integers counted in tenths (1.2 = 12).                 *)
(***************************************************************************)
EXTENDS Integers, Sequences, FiniteSets, TLC

VARIABLES
    \* ---- detect_panels ----
    page,           \* pixel size of the page image (img.shape)
    contours,       \* outer contours found on the page, in detection order
    panels,         \* the list detect_panels returns
    dp_pc,          \* "start" | "done"
    \* ---- MangaNarrator.create_recap_script ----
    panels_data,    \* the list of dicts passed in ('text', 'description')
    script_parts,   \* the parts appended by the loop
    script,         \* the joined script, as a sequence of tokens
    rs_pc,          \* "start" | "done"
    \* ---- MangaVideoGenerator.create_ken_burns_clip ----
    resolution,     \* self.resolution, [w, h]
    image_size,     \* pixel size of the image at image_path, [w, h]
    duration,       \* clip duration
    zoom_start,     \* initial zoom level (tenths)
    zoom_end,       \* final zoom level (tenths)
    pan_direction,  \* 'right' | 'left' | 'up' | 'down'
    clip_size,      \* size of the clip's frames after clip.resize, [w, h]
    frame,          \* what the last zoom_and_pan(get_frame, t) computed
    frame_log,      \* every result zoom_and_pan returned so far, in call order
    kb_pc,          \* "start" | "ready" (clip.fl(zoom_and_pan) returned)
    \* ---- MangaVideoGenerator.create_manga_recap ----
    scenes,         \* the list of scene dicts ('image', 'duration')
    audio_exists,   \* os.path.exists(audio_path)
    audio_duration, \* AudioFileClip(audio_path).duration
    clips,          \* the clips list: title card, then one clip per scene
    video,          \* the concatenated clip: [duration, has_audio]
    written,        \* video.write_videofile(output_path, ...) has run
    mr_pc,          \* "start" | "done"
    \* ---- create_manga_recap_video ----
    images,         \* the page images extract_pages_from_pdf returned
    ocr_texts,      \* per processed page, the OCR text of each of its panels
    all_text,       \* the texts collected for the narration
    pl_script,      \* script = " ... ".join(all_text), as tokens
    temp_dir,       \* the TemporaryDirectory exists
    calls,          \* the work the run has started so far, in order
    error,          \* the exception that ended the run, or NoError
    missing_tool,   \* the external tool that is not installed, or "none"
    cancel_requested, \* a cancellation of the run has been asked for
    pl_pc,          \* "extract" | "text" | "tts" | "scenes" | "video" |
                    \* "done" | "failed"
    \* ---- Home (the page component) ----
    uploadedFile,   \* useState<File | null>(null)
    activeTab,      \* 'upload' | 'docs' | 'local'
    expandedSection, \* a section id or "null"
    copiedCode,     \* a code block id or "null"
    processingSteps, \* the five steps, each [id, status]
    clipboard,      \* the code block last written to the clipboard, or "null"
    timers,         \* due times of the pending setTimeout callbacks
    now,            \* the clock, in seconds
    copied_at,      \* the time of the last copyToClipboard call
    last_event,     \* the handler that ran last, with its argument
    ui_pc,          \* "idle" | "mounted"
    \* ---- setup.sh ----
    ostype,         \* $OSTYPE
    os,             \* $OS
    has_brew,       \* command -v brew succeeds
    failing_step,   \* the install command that fails on this machine, or "none"
    has_ffmpeg,     \* ffmpeg is on the PATH when stage [4/4] runs
    has_tesseract,  \* tesseract is on the PATH when stage [4/4] runs
    missing_package, \* the Python package that cannot be imported, or "none"
    output,         \* the stage headings and final message echoed so far
    exit_status,    \* the script's exit status, -1 while it runs
    sh_pc           \* "detect" | "deps" | "venv" | "pip" | "ffmpeg" |
                    \* "tesseract" | "python" | "complete" | "exited"

panelVars == <<page, contours, panels, dp_pc>>
scriptVars == <<panels_data, script_parts, script, rs_pc>>
clipVars == <<resolution, image_size, duration, zoom_start, zoom_end,
              pan_direction, clip_size, frame, frame_log, kb_pc>>

recapVars == <<scenes, audio_exists, audio_duration, clips, video, written, mr_pc>>

pipeVars == <<images, ocr_texts, all_text, pl_script, temp_dir, calls, error,
              missing_tool, cancel_requested, pl_pc>>

uiVars == <<uploadedFile, activeTab, expandedSection, copiedCode, processingSteps,
            clipboard, timers, now, copied_at, last_event, ui_pc>>

setupVars == <<ostype, os, has_brew, failing_step, has_ffmpeg, has_tesseract,
               missing_package, output, exit_status, sh_pc>>

vars == <<panelVars, scriptVars, clipVars, recapVars, pipeVars, uiVars, setupVars>>

-----------------------------------------------------------------------------
(* Bounds of the model *)

MaxContours == 3
MaxPanelsData == 3
MaxDuration == 3
MaxEvals == 3
MaxOvershoot == 1
MaxScenes == 3
MaxPages == 3
MaxDrop == 2
MaxTime == 3

-----------------------------------------------------------------------------
(* Generic helpers *)

SeqsUpTo(S, n) == UNION { [1..k -> S] : k \in 0..n }

-----------------------------------------------------------------------------
(* detect_panels (panelDetectCode)                                         *)

\* def detect_panels(image_path, min_area: int = 10000)
min_area == 10000

\* panels.sort(key=lambda p: (p.y // 100, -p.x)): the band divisor
BAND_HEIGHT == 100

\* The pages fed to the detector: width and height in pixels.
PageSizes == { [w |-> 400, h |-> 300] }

\* A contour as cv2 reports it: its bounding rectangle (cv2.boundingRect)
\* and its enclosed area (cv2.contourArea <= w * h).
\* The last one is an L-shaped region (a thick left edge and bottom edge):
\* its bounding rectangle spans the boxes of separate regions above it.
ContourSet ==
    { [x |-> cx, y |-> cy, w |-> cw, h |-> 100, area |-> ca] :
        cx \in {0, 150}, cy \in {0, 99, 100}, cw \in {100, 250},
        ca \in {9999, 10000} }
    \cup { [x |-> 0, y |-> 0, w |-> 250, h |-> 200, area |-> 12600] }

\* Panel(x=x, y=y, width=w, height=h, image=panel_img); the cropped image is
\* identified by the detection index of the contour it was cut from.
Panel(c, i) == [x |-> c.x, y |-> c.y, width |-> c.w, height |-> c.h, image |-> i]

\* for contour in contours: if area < min_area: continue; panels.append(...)
RECURSIVE FilterFrom(_, _)
FilterFrom(cs, i) ==
    IF i > Len(cs) THEN << >>
    ELSE IF cs[i].area < min_area THEN FilterFrom(cs, i + 1)
         ELSE <<Panel(cs[i], i)>> \o FilterFrom(cs, i + 1)

\* key=lambda p: (p.y // 100, -p.x)
band(p) == p.y \div BAND_HEIGHT

SortKeyMutNoNeg(p) == <<band(p), p.x>>

SortKey(p) == <<band(p), 0 - p.x>>

\* Python tuple comparison of two keys
KeyLessMutOrEqual(k1, k2) == k1[1] < k2[1] \/ (k1[1] = k2[1] /\ k1[2] <= k2[2])

KeyLess(k1, k2) == k1[1] < k2[1] \/ (k1[1] = k2[1] /\ k1[2] < k2[2])

\* list.sort is stable: an element goes after every element whose key is
\* not greater than its own.
RECURSIVE InsertStable(_, _)
InsertStable(s, p) ==
    IF s = << >> THEN <<p>>
    ELSE IF KeyLess(SortKey(p), SortKey(Head(s))) THEN <<p>> \o s
         ELSE <<Head(s)>> \o InsertStable(Tail(s), p)

RECURSIVE SortPanels(_)
SortPanels(s) ==
    IF s = << >> THEN << >>
    ELSE InsertStable(SortPanels(SubSeq(s, 1, Len(s) - 1)), s[Len(s)])

detect_panels(cs) == SortPanels(FilterFrom(cs, 1))

\* The component is not running: nothing to detect.
IdlePanels ==
    /\ page \in PageSizes
    /\ contours = << >>
    /\ panels = << >>
    /\ dp_pc = "idle"

DetectPanels ==
    /\ dp_pc = "start"
    /\ panels' = detect_panels(contours)
    /\ dp_pc' = "done"
    /\ UNCHANGED <<page, contours>>
    /\ UNCHANGED <<scriptVars, clipVars, recapVars, pipeVars>>
    /\ UNCHANGED <<uiVars, setupVars>>

-----------------------------------------------------------------------------
(* MangaNarrator.create_recap_script (ttsCode)                             *)

\* Values of panel.get('text', '') and panel.get('description', ''); a
\* missing key reads as the empty string.
TextSet == {"", "Run!"}
DescSet == {"", "a storm"}

PanelDataSet == [text : TextSet, description : DescSet]

\* " ... ".join(...): the separator token
SEP == [kind |-> "sep", body |-> " ... "]

\* One pass of the loop body over panel: what it appends to script_parts.
\*   if text: script_parts.append(f"{text}")
\*   elif desc: script_parts.append(f"[Scene: {desc}]")
PartsOf(panel) ==
    IF panel.text # "" THEN << [kind |-> "text", body |-> panel.text] >>
    ELSE IF panel.description # ""
         THEN << [kind |-> "scene", body |-> panel.description] >>
         ELSE << >>

RECURSIVE ScriptParts(_)
ScriptParts(pd) ==
    IF pd = << >> THEN << >>
    ELSE PartsOf(Head(pd)) \o ScriptParts(Tail(pd))

\* sep.join(parts): the parts with the separator between neighbours; the
\* empty list joins to the empty string (no token).
RECURSIVE Join(_, _)
Join(sep, parts) ==
    IF parts = << >> THEN << >>
    ELSE IF Len(parts) = 1 THEN <<parts[1]>>
         ELSE <<parts[1], sep>> \o Join(sep, Tail(parts))

IdleScript ==
    /\ panels_data = << >>
    /\ script_parts = << >>
    /\ script = << >>
    /\ rs_pc = "idle"

CreateRecapScript ==
    /\ rs_pc = "start"
    /\ script_parts' = ScriptParts(panels_data)
    /\ script' = Join(SEP, script_parts')
    /\ rs_pc' = "done"
    /\ UNCHANGED panels_data
    /\ UNCHANGED <<panelVars, clipVars, recapVars, pipeVars>>
    /\ UNCHANGED <<uiVars, setupVars>>

-----------------------------------------------------------------------------
(* MangaVideoGenerator.create_ken_burns_clip and its zoom_and_pan filter   *)
(* (videoGenCode)                                                          *)

\* Python int(): truncation toward zero of num / den, den > 0.
IntTrunc(num, den) ==
    IF num >= 0 THEN num \div den ELSE 0 - ((0 - num) \div den)

\* self.resolution values: 1080p (the constructor's default) and 720p.
Resolutions == { [w |-> 1920, h |-> 1080], [w |-> 1280, h |-> 720] }

\* Pixel sizes of source images: 16:9 landscape, a portrait page, a wide strip.
ImageSizes ==
    { [w |-> 1920, h |-> 1080], [w |-> 1000, h |-> 1500], [w |-> 3000, h |-> 1000] }

\* Zoom levels in tenths: 1.0 and 1.2 are the defaults of the signature.
ZoomLevels == {10, 12, 13}

PanDirections == {"right", "left", "up", "down"}

NoFrame == [t |-> 0 - 1, crop_w |-> 0, crop_h |-> 0, x_offset |-> 0, y_offset |-> 0]

\* clip = clip.resize(height=int(self.resolution[1] * zoom_end)): the height
\* is set and the width follows the aspect ratio, truncated to whole pixels.
ResizedHeight(res, ze) == IntTrunc(res.h * ze, 10)

Resized(img, res, ze) ==
    [w |-> IntTrunc(img.w * ResizedHeight(res, ze), img.h),
     h |-> ResizedHeight(res, ze)]

\* progress = t / duration; current_zoom = zoom_start + (zoom_end - zoom_start) * progress.
\* ZoomNum is current_zoom (in tenths) multiplied by dur, which keeps it integral.
ZoomNumMutNoProgress(zs, ze, t, dur) == zs * dur + (ze - zs) * t * dur

ZoomNum(zs, ze, t, dur) == zs * dur + (ze - zs) * t

\* crop_h = int(self.resolution[1] / current_zoom); crop_w likewise
CropDim(res_dim, zs, ze, t, dur) ==
    IntTrunc(res_dim * 10 * dur, ZoomNum(zs, ze, t, dur))

\* (w - crop_w) // 2 : floor division
Centred(full, crop) == (full - crop) \div 2

\* The pan offset branches of zoom_and_pan
XOffset(dir, w, crop_w, t, dur) ==
    IF dir = "right" THEN IntTrunc((w - crop_w) * t, dur)
    ELSE IF dir = "left" THEN IntTrunc((w - crop_w) * (dur - t), dur)
    ELSE Centred(w, crop_w)

YOffset(dir, h, crop_h, t, dur) == Centred(h, crop_h)

zoom_and_pan(t) ==
    LET crop_h == CropDim(resolution.h, zoom_start, zoom_end, t, duration)
        crop_w == CropDim(resolution.w, zoom_start, zoom_end, t, duration)
    IN  [t |-> t, crop_w |-> crop_w, crop_h |-> crop_h,
         x_offset |-> XOffset(pan_direction, clip_size.w, crop_w, t, duration),
         y_offset |-> YOffset(pan_direction, clip_size.h, crop_h, t, duration)]

IdleClip ==
    /\ resolution = [w |-> 1920, h |-> 1080]
    /\ image_size = [w |-> 1920, h |-> 1080]
    /\ duration = 1
    /\ zoom_start = 10
    /\ zoom_end = 12
    /\ pan_direction = "right"
    /\ clip_size = [w |-> 0, h |-> 0]
    /\ frame = NoFrame
    /\ frame_log = << >>
    /\ kb_pc = "idle"

\* create_ken_burns_clip up to `return clip.fl(zoom_and_pan)`
CreateKenBurnsClip ==
    /\ kb_pc = "start"
    /\ clip_size' = Resized(image_size, resolution, zoom_end)
    /\ kb_pc' = "ready"
    /\ UNCHANGED <<resolution, image_size, duration, zoom_start, zoom_end,
                   pan_direction, frame, frame_log>>
    /\ UNCHANGED <<panelVars, scriptVars, recapVars, pipeVars>>
    /\ UNCHANGED <<uiVars, setupVars>>

\* The names zoom_and_pan reads but never assigns: self.resolution, the
\* arguments of create_ken_burns_clip and the resized clip behind get_frame.
clipInputs == <<resolution, image_size, duration, zoom_start, zoom_end,
                pan_direction, clip_size>>

\* The times a frame may be requested at: get_frame(t) accepts any t, also
\* before the start and after the end of the clip.
Times == (0 - MaxOvershoot)..(duration + MaxOvershoot)

\* A filter that shrinks the clip's frame buffer to the window it cropped.
ZoomAndPanMutInPlace ==
    /\ kb_pc = "ready"
    /\ Len(frame_log) < MaxEvals
    /\ \E t \in Times : frame' = zoom_and_pan(t)
    /\ frame_log' = Append(frame_log, frame')
    /\ clip_size' = [w |-> frame'.crop_w, h |-> frame'.crop_h]
    /\ UNCHANGED <<resolution, image_size, duration, zoom_start, zoom_end,
                   pan_direction, kb_pc>>
    /\ UNCHANGED <<panelVars, scriptVars, recapVars, pipeVars>>
    /\ UNCHANGED <<uiVars, setupVars>>

\* One evaluation of the filter at a time t; frames are asked for in any
\* order and any number of times.
ZoomAndPan ==
    /\ kb_pc = "ready"
    /\ Len(frame_log) < MaxEvals
    /\ \E t \in Times : frame' = zoom_and_pan(t)
    /\ frame_log' = Append(frame_log, frame')
    /\ UNCHANGED clipInputs
    /\ UNCHANGED kb_pc
    /\ UNCHANGED <<panelVars, scriptVars, recapVars, pipeVars>>
    /\ UNCHANGED <<uiVars, setupVars>>

-----------------------------------------------------------------------------
(* MangaVideoGenerator.create_manga_recap (videoGenCode)                   *)

\* TextClip(...).set_duration(3): the title card lasts 3 s
TITLE_DURATION == 6

\* scene.get('duration', 5): 5 s when the key is missing
DEFAULT_DURATION == 10

\* The minimum scene duration of the Duration Allocator, 1.5 s.
DurationFloor == 3

\* Marks a scene dict without a 'duration' key.
NoDuration == 0 - 1

\* Durations a caller puts in a scene dict: 1 s, 5 s, 14 s, or none.
SceneDurations == {2, 10, 28, NoDuration}

\* Durations of the narration audio: 2 s, 10 s, 30 s, 50 s.
AudioDurations == {4, 20, 60, 100}

\* pan_directions = ['right', 'left', 'up', 'down']
pan_directions == <<"right", "left", "up", "down">>

SceneDuration(scene) ==
    IF scene.duration = NoDuration THEN DEFAULT_DURATION ELSE scene.duration

\* for i, scene in enumerate(scenes): the clip of the scene at 0-based index i
SceneClip(scene, i) ==
    [kind |-> "scene", image |-> scene.image, duration |-> SceneDuration(scene),
     pan_direction |-> pan_directions[(i % Len(pan_directions)) + 1]]

TitleClip == [kind |-> "title", image |-> 0, duration |-> TITLE_DURATION,
              pan_direction |-> "none"]

MakeClips(sc) == <<TitleClip>> \o [i \in 1..Len(sc) |-> SceneClip(sc[i], i - 1)]

RECURSIVE SumDurations(_)
SumDurations(cl) ==
    IF cl = << >> THEN 0 ELSE Head(cl).duration + SumDurations(Tail(cl))

\* if os.path.exists(audio_path):
\*     if audio.duration > video.duration: video = video.set_duration(audio.duration)
AdjustedDurationMutAlways(video_duration, exists, audio_dur) ==
    IF exists THEN audio_dur ELSE video_duration

AdjustedDuration(video_duration, exists, audio_dur) ==
    IF exists /\ audio_dur > video_duration THEN audio_dur ELSE video_duration

IdleRecap ==
    /\ scenes = << >>
    /\ audio_exists = FALSE
    /\ audio_duration = 0
    /\ clips = << >>
    /\ video = [duration |-> 0, has_audio |-> FALSE]
    /\ written = FALSE
    /\ mr_pc = "idle"

\* The body of create_manga_recap, from clips = [] to write_videofile.
RunCreateMangaRecap ==
    /\ clips' = MakeClips(scenes)
    /\ video' = [duration |-> AdjustedDuration(SumDurations(clips'),
                                               audio_exists, audio_duration),
                 has_audio |-> audio_exists]
    /\ written' = TRUE
    /\ mr_pc' = "done"
    /\ UNCHANGED <<scenes, audio_exists, audio_duration>>

CreateMangaRecap ==
    /\ mr_pc = "start"
    /\ RunCreateMangaRecap
    /\ UNCHANGED <<panelVars, scriptVars, clipVars, pipeVars>>
    /\ UNCHANGED <<uiVars, setupVars>>

-----------------------------------------------------------------------------
(* create_manga_recap_video: the complete pipeline (videoGenCode)          *)

\* for img_path in images[:20], and scenes built from images[:20]
PAGE_LIMIT == 20

\* {'image': img, 'duration': 5}: every scene gets 5 s
SCENE_DURATION == 10

\* The contour lists cv2 may find on a page of the document.
PageContours ==
    { << >>,
      << [x |-> 0, y |-> 0, w |-> 100, h |-> 100, area |-> 9999] >>,
      << [x |-> 0, y |-> 0, w |-> 100, h |-> 100, area |-> 10000] >>,
      << [x |-> 0, y |-> 0, w |-> 100, h |-> 100, area |-> 10000],
         [x |-> 150, y |-> 0, w |-> 100, h |-> 100, area |-> 10000] >> }

\* images[:n]
Prefix(s, n) == SubSeq(s, 1, IF Len(s) < n THEN Len(s) ELSE n)

\* for panel in panels: text = ...; if text: all_text.append(text)
RECURSIVE NonEmptyTexts(_)
NonEmptyTexts(texts) ==
    IF texts = << >> THEN << >>
    ELSE (IF Head(texts) # "" THEN <<Head(texts)>> ELSE << >>)
         \o NonEmptyTexts(Tail(texts))

\* scenes = [{'image': img, 'duration': 5} for img in images[:20]]
MakeScenesMutShort(imgs) ==
    [i \in 1..Len(Prefix(imgs, PAGE_LIMIT)) |->
        [image |-> imgs[i], duration |-> 2]]

MakeScenes(imgs) ==
    [i \in 1..Len(Prefix(imgs, PAGE_LIMIT)) |->
        [image |-> imgs[i], duration |-> SCENE_DURATION]]

\* One entry of calls: op names the work, page the page or scene it is for,
\* item the panel (for "detect": the number of panels found), arg the input.
Call(op, pg, k) == [op |-> op, page |-> pg, item |-> k, arg |-> << >>]

\* The external tools the code runs: pytesseract needs the tesseract binary,
\* generate_narration starts "piper", write_videofile encodes with ffmpeg.
MissingTools == {"none", "tesseract", "piper", "ffmpeg"}

NoError == [op |-> "none", page |-> 0, cause |-> "none"]

\* An external tool failed: it is either not installed or it ran and failed.
ToolError(op, pg, tool) ==
    [op |-> op, page |-> pg,
     cause |-> IF missing_tool = tool THEN "ToolUnavailable" ELSE "StageFailure"]

\* for panel in panels: text = extract_text_from_panel(panel), for the first
\* n panels of page pg
OcrCallsMutSkipFirst(pg, n) == [k \in 1..(n - 1) |-> Call("ocr", pg, k + 1)]

OcrCalls(pg, n) == [k \in 1..n |-> Call("ocr", pg, k)]

\* self.create_ken_burns_clip(...) for each scene, concatenate_videoclips,
\* video.write_videofile
VideoCalls(sc) ==
    [i \in 1..Len(sc) |-> Call("clip", i, 0)]
        \o <<Call("concat", 0, 0), Call("write", 0, 0)>>

IdlePipe ==
    /\ images = << >>
    /\ ocr_texts = << >>
    /\ all_text = << >>
    /\ pl_script = << >>
    /\ temp_dir = FALSE
    /\ calls = << >>
    /\ error = NoError
    /\ missing_tool = "none"
    /\ cancel_requested = FALSE
    /\ pl_pc = "idle"

\* with tempfile.TemporaryDirectory() as temp_dir:
\*     images = extract_pages_from_pdf(pdf_path, pages_dir)
ExtractPages ==
    /\ pl_pc = "extract"
    /\ \E n \in 1..MaxPages : images' = [i \in 1..n |-> i]
    /\ temp_dir' = TRUE
    /\ calls' = Append(calls, Call("extract", 0, 0))
    /\ pl_pc' = "text"
    /\ UNCHANGED <<ocr_texts, all_text, pl_script, error, missing_tool,
                   cancel_requested>>
    /\ UNCHANGED <<panelVars, scriptVars, clipVars, recapVars>>
    /\ UNCHANGED <<uiVars, setupVars>>

\* fitz.open(pdf_path) raises on an unreadable document: the exception
\* leaves the with block, which removes the temporary directory.
ExtractPagesFails ==
    /\ pl_pc = "extract"
    /\ calls' = Append(calls, Call("extract", 0, 0))
    /\ error' = [op |-> "extract", page |-> 0, cause |-> "InvalidInput"]
    /\ temp_dir' = FALSE
    /\ pl_pc' = "failed"
    /\ UNCHANGED <<images, ocr_texts, all_text, pl_script, missing_tool,
                   cancel_requested>>
    /\ UNCHANGED <<panelVars, scriptVars, clipVars, recapVars>>
    /\ UNCHANGED <<uiVars, setupVars>>

\* One pass of `for img_path in images[:20]`: detect the panels of the next
\* page, run OCR on each and keep the texts that are not empty.
ProcessPage ==
    /\ pl_pc = "text"
    /\ Len(ocr_texts) < Len(Prefix(images, PAGE_LIMIT))
    /\ \E cs \in PageContours :
         LET n == Len(detect_panels(cs))
             pg == Len(ocr_texts) + 1
         IN  /\ n = 0 \/ missing_tool # "tesseract"
             /\ \E texts \in [1..n -> TextSet] :
                  /\ ocr_texts' = Append(ocr_texts, texts)
                  /\ all_text' = all_text \o NonEmptyTexts(texts)
             /\ calls' = calls \o <<Call("detect", pg, n)>> \o OcrCalls(pg, n)
    /\ UNCHANGED <<images, pl_script, temp_dir, error, missing_tool,
                   cancel_requested, pl_pc>>
    /\ UNCHANGED <<panelVars, scriptVars, clipVars, recapVars>>
    /\ UNCHANGED <<uiVars, setupVars>>

\* The next page's image cannot be decoded: cv2.imread returns None and
\* cv2.cvtColor(None, ...) raises inside detect_panels. Nothing catches the
\* exception, so it leaves the loop and the with block.
DetectPanelsFails ==
    /\ pl_pc = "text"
    /\ Len(ocr_texts) < Len(Prefix(images, PAGE_LIMIT))
    /\ calls' = Append(calls, Call("detect", Len(ocr_texts) + 1, 0))
    /\ error' = [op |-> "detect", page |-> Len(ocr_texts) + 1,
                 cause |-> "ImageDecodeFailure"]
    /\ temp_dir' = FALSE
    /\ pl_pc' = "failed"
    /\ UNCHANGED <<images, ocr_texts, all_text, pl_script, missing_tool,
                   cancel_requested>>
    /\ UNCHANGED <<panelVars, scriptVars, clipVars, recapVars>>
    /\ UNCHANGED <<uiVars, setupVars>>

\* extract_text_from_panel raises on panel k of the next page (tesseract is
\* not installed, or it fails): the texts of the panels before k were
\* collected, then the exception leaves the loop and the with block.
OcrFails ==
    /\ pl_pc = "text"
    /\ Len(ocr_texts) < Len(Prefix(images, PAGE_LIMIT))
    /\ \E cs \in PageContours :
         LET n == Len(detect_panels(cs))
             pg == Len(ocr_texts) + 1
         IN  \E k \in 1..n :
               /\ missing_tool = "tesseract" => k = 1
               /\ \E texts \in [1..(k - 1) -> TextSet] :
                    all_text' = all_text \o NonEmptyTexts(texts)
               /\ calls' = calls \o <<Call("detect", pg, n)>> \o OcrCalls(pg, k)
               /\ error' = ToolError("ocr", pg, "tesseract")
    /\ temp_dir' = FALSE
    /\ pl_pc' = "failed"
    /\ UNCHANGED <<images, ocr_texts, pl_script, missing_tool, cancel_requested>>
    /\ UNCHANGED <<panelVars, scriptVars, clipVars, recapVars>>
    /\ UNCHANGED <<uiVars, setupVars>>

\* script = " ... ".join(all_text), once the loop is over
JoinScript ==
    /\ pl_pc = "text"
    /\ Len(ocr_texts) = Len(Prefix(images, PAGE_LIMIT))
    /\ pl_script' = Join(SEP, all_text)
    /\ calls' = Append(calls, Call("join", 0, 0))
    /\ pl_pc' = "tts"
    /\ UNCHANGED <<images, ocr_texts, all_text, temp_dir, error, missing_tool,
                   cancel_requested>>
    /\ UNCHANGED <<panelVars, scriptVars, clipVars, recapVars>>
    /\ UNCHANGED <<uiVars, setupVars>>

\* The call narrator.generate_narration(script, audio_path)
TtsCall == [Call("tts", 0, 0) EXCEPT !.arg = pl_script]

\* narrator.generate_narration(script, audio_path) returns: piper wrote the
\* audio file.
GenerateNarration ==
    /\ pl_pc = "tts"
    /\ missing_tool # "piper"
    /\ audio_exists' = TRUE
    /\ audio_duration' \in AudioDurations
    /\ calls' = Append(calls, TtsCall)
    /\ pl_pc' = "scenes"
    /\ UNCHANGED <<images, ocr_texts, all_text, pl_script, temp_dir, error,
                   missing_tool, cancel_requested>>
    /\ UNCHANGED <<scenes, clips, video, written, mr_pc>>
    /\ UNCHANGED <<panelVars, scriptVars, clipVars>>
    /\ UNCHANGED <<uiVars, setupVars>>

\* A narration failure that is recorded but does not stop the run.
GenerateNarrationFailsMutIgnored ==
    /\ pl_pc = "tts"
    /\ calls' = Append(calls, TtsCall)
    /\ error' = ToolError("tts", 0, "piper")
    /\ pl_pc' = "scenes"
    /\ UNCHANGED <<images, ocr_texts, all_text, pl_script, temp_dir,
                   missing_tool, cancel_requested>>
    /\ UNCHANGED <<panelVars, scriptVars, clipVars, recapVars>>
    /\ UNCHANGED <<uiVars, setupVars>>

\* subprocess.Popen cannot start piper, or
\* if process.returncode != 0: raise RuntimeError(...): the exception leaves
\* the with block, which removes the temporary directory.
GenerateNarrationFails ==
    /\ pl_pc = "tts"
    /\ calls' = Append(calls, TtsCall)
    /\ error' = ToolError("tts", 0, "piper")
    /\ temp_dir' = FALSE
    /\ pl_pc' = "failed"
    /\ UNCHANGED <<images, ocr_texts, all_text, pl_script, missing_tool,
                   cancel_requested>>
    /\ UNCHANGED <<panelVars, scriptVars, clipVars, recapVars>>
    /\ UNCHANGED <<uiVars, setupVars>>

\* scenes = [...]
BuildScenes ==
    /\ pl_pc = "scenes"
    /\ scenes' = MakeScenes(images)
    /\ calls' = Append(calls, Call("scenes", 0, 0))
    /\ pl_pc' = "video"
    /\ UNCHANGED <<images, ocr_texts, all_text, pl_script, temp_dir, error,
                   missing_tool, cancel_requested>>
    /\ UNCHANGED <<audio_exists, audio_duration, clips, video, written, mr_pc>>
    /\ UNCHANGED <<panelVars, scriptVars, clipVars>>
    /\ UNCHANGED <<uiVars, setupVars>>

\* generator.create_manga_recap(scenes, audio_path, output_path, title), then
\* the end of the with block.
CreateVideo ==
    /\ pl_pc = "video"
    /\ missing_tool # "ffmpeg"
    /\ RunCreateMangaRecap
    /\ calls' = calls \o VideoCalls(scenes)
    /\ temp_dir' = FALSE
    /\ pl_pc' = "done"
    /\ UNCHANGED <<images, ocr_texts, all_text, pl_script, error, missing_tool,
                   cancel_requested>>
    /\ UNCHANGED <<panelVars, scriptVars, clipVars>>
    /\ UNCHANGED <<uiVars, setupVars>>

\* video.write_videofile raises (ffmpeg is not installed, or the encoding
\* fails): create_manga_recap does not return and the exception leaves the
\* with block.
CreateVideoFails ==
    /\ pl_pc = "video"
    /\ clips' = MakeClips(scenes)
    /\ video' = [duration |-> AdjustedDuration(SumDurations(clips'),
                                               audio_exists, audio_duration),
                 has_audio |-> audio_exists]
    /\ mr_pc' = "raised"
    /\ calls' = calls \o VideoCalls(scenes)
    /\ error' = ToolError("write", 0, "ffmpeg")
    /\ temp_dir' = FALSE
    /\ pl_pc' = "failed"
    /\ UNCHANGED <<scenes, audio_exists, audio_duration, written>>
    /\ UNCHANGED <<images, ocr_texts, all_text, pl_script, missing_tool,
                   cancel_requested>>
    /\ UNCHANGED <<panelVars, scriptVars, clipVars>>
    /\ UNCHANGED <<uiVars, setupVars>>

\* The caller asks for the running pipeline to be cancelled. No statement of
\* create_manga_recap_video reads the request.
RequestCancel ==
    /\ pl_pc \in {"extract", "text", "tts", "scenes", "video"}
    /\ ~cancel_requested
    /\ cancel_requested' = TRUE
    /\ UNCHANGED <<images, ocr_texts, all_text, pl_script, temp_dir, calls,
                   error, missing_tool, pl_pc>>
    /\ UNCHANGED <<panelVars, scriptVars, clipVars, recapVars>>
    /\ UNCHANGED <<uiVars, setupVars>>

-----------------------------------------------------------------------------
(* Home: the page component (src/app/layout.tsx)                           *)

\* setTimeout(() => setCopiedCode(null), 2000): 2000 ms, in seconds
COPIED_TIMEOUT == 2

\* file.type === 'application/pdf'
PDF_TYPE == "application/pdf"

\* useState<File | null>(null)
NoFile == [id |-> 0, type |-> "none"]

\* The files a user may drop: two PDF documents and a picture.
Files == { [id |-> 1, type |-> PDF_TYPE], [id |-> 2, type |-> PDF_TYPE],
           [id |-> 3, type |-> "image/png"] }

Tabs == {"upload", "docs", "local"}

\* The sections of the documentation tab that toggleSection is called with.
Sections == {"architecture", "api", "tools"}

\* The ids copyToClipboard is called with.
CodeIds == {"pdf", "panel", "tts", "video"}

\* The initial value of processingSteps.
StepIds == <<"extract", "analyze", "script", "voice", "video">>

InitialStepsMutProcessing ==
    [i \in 1..Len(StepIds) |->
        [id |-> StepIds[i], status |-> IF i = 1 THEN "processing" ELSE "pending"]]

InitialSteps ==
    [i \in 1..Len(StepIds) |-> [id |-> StepIds[i], status |-> "pending"]]

\* The handler that ran, with the files or the id it was given.
Event(kind, files, arg) == [kind |-> kind, files |-> files, arg |-> arg]

\* The component is not mounted.
IdleUI ==
    /\ uploadedFile = NoFile
    /\ activeTab = "upload"
    /\ expandedSection = "architecture"
    /\ copiedCode = "null"
    /\ processingSteps = InitialSteps
    /\ clipboard = "null"
    /\ timers = {}
    /\ now = 0
    /\ copied_at = 0
    /\ last_event = Event("none", << >>, "")
    /\ ui_pc = "idle"

\* onClick={() => setActiveTab(tab)}: the three buttons of the nav bar
SetActiveTab ==
    /\ ui_pc = "mounted"
    /\ \E tab \in Tabs :
          /\ activeTab' = tab
          /\ last_event' = Event("tab", << >>, tab)
    /\ UNCHANGED <<uploadedFile, expandedSection, copiedCode, processingSteps,
                   clipboard, timers, now, copied_at, ui_pc>>
    /\ UNCHANGED <<panelVars, scriptVars, clipVars, recapVars, pipeVars, setupVars>>

\* toggleSection(section); the section headers are rendered in the docs tab
ToggleSection ==
    /\ ui_pc = "mounted"
    /\ activeTab = "docs"
    /\ \E section \in Sections :
          /\ expandedSection' = IF expandedSection = section THEN "null" ELSE section
          /\ last_event' = Event("toggle", << >>, section)
    /\ UNCHANGED <<uploadedFile, activeTab, copiedCode, processingSteps,
                   clipboard, timers, now, copied_at, ui_pc>>
    /\ UNCHANGED <<panelVars, scriptVars, clipVars, recapVars, pipeVars, setupVars>>

\* An onDrop that takes the first file whatever its type.
OnDropMutAnyType ==
    /\ ui_pc = "mounted"
    /\ activeTab = "upload"
    /\ \E acceptedFiles \in SeqsUpTo(Files, MaxDrop) :
          /\ uploadedFile' = IF acceptedFiles # << >>
                             THEN acceptedFiles[1] ELSE uploadedFile
          /\ last_event' = Event("drop", acceptedFiles, "")
    /\ UNCHANGED <<activeTab, expandedSection, copiedCode, processingSteps,
                   clipboard, timers, now, copied_at, ui_pc>>
    /\ UNCHANGED <<panelVars, scriptVars, clipVars, recapVars, pipeVars, setupVars>>

\* onDrop(acceptedFiles); the dropzone is rendered in the upload tab
\*     const file = acceptedFiles[0];
\*     if (file && file.type === 'application/pdf') setUploadedFile(file);
OnDrop ==
    /\ ui_pc = "mounted"
    /\ activeTab = "upload"
    /\ \E acceptedFiles \in SeqsUpTo(Files, MaxDrop) :
          /\ uploadedFile' = IF acceptedFiles # << >> /\ acceptedFiles[1].type = PDF_TYPE
                             THEN acceptedFiles[1] ELSE uploadedFile
          /\ last_event' = Event("drop", acceptedFiles, "")
    /\ UNCHANGED <<activeTab, expandedSection, copiedCode, processingSteps,
                   clipboard, timers, now, copied_at, ui_pc>>
    /\ UNCHANGED <<panelVars, scriptVars, clipVars, recapVars, pipeVars, setupVars>>

\* copyToClipboard(code, id); the copy buttons are rendered in the docs tab
\* when the 'api' section is expanded
\*     navigator.clipboard.writeText(code);
\*     setCopiedCode(id);
\*     setTimeout(() => setCopiedCode(null), 2000);
CopyToClipboard ==
    /\ ui_pc = "mounted"
    /\ activeTab = "docs"
    /\ expandedSection = "api"
    /\ \E id \in CodeIds :
          /\ clipboard' = id
          /\ copiedCode' = id
          /\ last_event' = Event("copy", << >>, id)
    /\ timers' = timers \cup {now + COPIED_TIMEOUT}
    /\ copied_at' = now
    /\ UNCHANGED <<uploadedFile, activeTab, expandedSection, processingSteps,
                   now, ui_pc>>
    /\ UNCHANGED <<panelVars, scriptVars, clipVars, recapVars, pipeVars, setupVars>>

\* The callback of a timeout that is due: () => setCopiedCode(null)
TimeoutFires ==
    /\ ui_pc = "mounted"
    /\ \E due \in timers :
          /\ due <= now
          /\ timers' = timers \ {due}
    /\ copiedCode' = "null"
    /\ last_event' = Event("timeout", << >>, "")
    /\ UNCHANGED <<uploadedFile, activeTab, expandedSection, processingSteps,
                   clipboard, now, copied_at, ui_pc>>
    /\ UNCHANGED <<panelVars, scriptVars, clipVars, recapVars, pipeVars, setupVars>>

\* One second passes; a timeout that is due runs before the clock moves on.
Tick ==
    /\ ui_pc = "mounted"
    /\ now < MaxTime
    /\ \A due \in timers : due > now
    /\ now' = now + 1
    /\ last_event' = Event("tick", << >>, "")
    /\ UNCHANGED <<uploadedFile, activeTab, expandedSection, copiedCode,
                   processingSteps, clipboard, timers, copied_at, ui_pc>>
    /\ UNCHANGED <<panelVars, scriptVars, clipVars, recapVars, pipeVars, setupVars>>

-----------------------------------------------------------------------------
(* setup.sh (src/local-tools/setup.bat, from the #!/bin/bash line)         *)
(* The script runs under set -e: a command that fails outside a            *)
(* condition, a || list or the left side of a pipeline ends the script.    *)

\* Values of $OSTYPE
OsTypes == {"darwin", "linux-gnu", "msys", "win32", "freebsd"}

\* OS="unknown"; if [[ "$OSTYPE" == "darwin"* ]] ... elif ... fi
DetectedOs(t) ==
    IF t = "darwin" THEN "macos"
    ELSE IF t = "linux-gnu" THEN "linux"
    ELSE IF t \in {"msys", "win32"} THEN "windows"
    ELSE "unknown"

\* The installation commands of stages [1/4] to [3/4]; at most one of them
\* fails on a given machine.
InstallSteps ==
    {"brew_ffmpeg", "brew_tesseract", "brew_espeak", "apt_update", "apt_install",
     "apt_langs", "venv", "activate", "pip_upgrade", "pip_requirements"}

\* The modules imported by the python3 -c checks of stage [4/4], in order.
Packages == {"fitz", "cv2", "pytesseract", "moviepy", "pyttsx3"}

\* Exit status of a command that is not found, of head, and of exit 1.
NOT_FOUND == 127
EXIT_FAILURE == 1

CommandStatus(present) == IF present THEN 0 ELSE NOT_FOUND

\* Without pipefail the status of `left | right` is the status of right.
PipelineStatus(left, right) == right

\* `tool -version | head -1`: head succeeds whether or not it reads a line.
VerifyStatus(present) == PipelineStatus(CommandStatus(present), 0)

\* The script is not running.
IdleSetup ==
    /\ ostype = "linux-gnu"
    /\ os = "unknown"
    /\ has_brew = FALSE
    /\ failing_step = "none"
    /\ has_ffmpeg = FALSE
    /\ has_tesseract = FALSE
    /\ missing_package = "none"
    /\ output = << >>
    /\ exit_status = 0 - 1
    /\ sh_pc = "idle"

\* # Detect OS
DetectOS ==
    /\ sh_pc = "detect"
    /\ os' = DetectedOs(ostype)
    /\ sh_pc' = "deps"
    /\ UNCHANGED <<ostype, has_brew, failing_step, has_ffmpeg, has_tesseract,
                   missing_package, output, exit_status>>
    /\ UNCHANGED <<panelVars, scriptVars, clipVars, recapVars, pipeVars, uiVars>>

\* [1/4] when the script goes on: `brew install X || true` never stops it,
\* apt update and apt install succeeded, or the OS has no install branch.
InstallSystemDeps ==
    /\ sh_pc = "deps"
    /\ os = "macos" => has_brew
    /\ os = "linux" => failing_step \notin {"apt_update", "apt_install"}
    /\ has_ffmpeg' = (\/ has_ffmpeg
                      \/ os = "macos" /\ failing_step # "brew_ffmpeg"
                      \/ os = "linux")
    /\ has_tesseract' = (\/ has_tesseract
                         \/ os = "macos" /\ failing_step # "brew_tesseract"
                         \/ os = "linux")
    /\ output' = Append(output, "[1/4]")
    /\ sh_pc' = "venv"
    /\ UNCHANGED <<ostype, os, has_brew, failing_step, missing_package, exit_status>>
    /\ UNCHANGED <<panelVars, scriptVars, clipVars, recapVars, pipeVars, uiVars>>

\* [1/4] when the script stops: no Homebrew (exit 1), or sudo apt update /
\* sudo apt install fails under set -e.
InstallSystemDepsFails ==
    /\ sh_pc = "deps"
    /\ \/ os = "macos" /\ ~has_brew
       \/ os = "linux" /\ failing_step \in {"apt_update", "apt_install"}
    /\ output' = Append(output, "[1/4]")
    /\ exit_status' = EXIT_FAILURE
    /\ sh_pc' = "exited"
    /\ UNCHANGED <<ostype, os, has_brew, failing_step, has_ffmpeg, has_tesseract,
                   missing_package>>
    /\ UNCHANGED <<panelVars, scriptVars, clipVars, recapVars, pipeVars, uiVars>>

\* [2/4] python3 -m venv venv; source venv/bin/activate
CreateVenv ==
    /\ sh_pc = "venv"
    /\ failing_step \notin {"venv", "activate"}
    /\ output' = Append(output, "[2/4]")
    /\ sh_pc' = "pip"
    /\ UNCHANGED <<ostype, os, has_brew, failing_step, has_ffmpeg, has_tesseract,
                   missing_package, exit_status>>
    /\ UNCHANGED <<panelVars, scriptVars, clipVars, recapVars, pipeVars, uiVars>>

CreateVenvFails ==
    /\ sh_pc = "venv"
    /\ failing_step \in {"venv", "activate"}
    /\ output' = Append(output, "[2/4]")
    /\ exit_status' = EXIT_FAILURE
    /\ sh_pc' = "exited"
    /\ UNCHANGED <<ostype, os, has_brew, failing_step, has_ffmpeg, has_tesseract,
                   missing_package>>
    /\ UNCHANGED <<panelVars, scriptVars, clipVars, recapVars, pipeVars, uiVars>>

\* [3/4] pip install --upgrade pip; pip install -r requirements.txt
InstallPythonDeps ==
    /\ sh_pc = "pip"
    /\ failing_step \notin {"pip_upgrade", "pip_requirements"}
    /\ output' = Append(output, "[3/4]")
    /\ sh_pc' = "ffmpeg"
    /\ UNCHANGED <<ostype, os, has_brew, failing_step, has_ffmpeg, has_tesseract,
                   missing_package, exit_status>>
    /\ UNCHANGED <<panelVars, scriptVars, clipVars, recapVars, pipeVars, uiVars>>

InstallPythonDepsFails ==
    /\ sh_pc = "pip"
    /\ failing_step \in {"pip_upgrade", "pip_requirements"}
    /\ output' = Append(output, "[3/4]")
    /\ exit_status' = EXIT_FAILURE
    /\ sh_pc' = "exited"
    /\ UNCHANGED <<ostype, os, has_brew, failing_step, has_ffmpeg, has_tesseract,
                   missing_package>>
    /\ UNCHANGED <<panelVars, scriptVars, clipVars, recapVars, pipeVars, uiVars>>

\* [4/4] echo "Checking FFmpeg..."; ffmpeg -version | head -1
VerifyFfmpeg ==
    /\ sh_pc = "ffmpeg"
    /\ VerifyStatus(has_ffmpeg) = 0
    /\ output' = output \o <<"[4/4]">>
                        \o (IF has_ffmpeg THEN <<"ffmpeg version">> ELSE << >>)
    /\ sh_pc' = "tesseract"
    /\ UNCHANGED <<ostype, os, has_brew, failing_step, has_ffmpeg, has_tesseract,
                   missing_package, exit_status>>
    /\ UNCHANGED <<panelVars, scriptVars, clipVars, recapVars, pipeVars, uiVars>>

\* echo "Checking Tesseract..."; tesseract --version | head -1
VerifyTesseract ==
    /\ sh_pc = "tesseract"
    /\ VerifyStatus(has_tesseract) = 0
    /\ output' = output \o (IF has_tesseract THEN <<"tesseract version">> ELSE << >>)
    /\ sh_pc' = "python"
    /\ UNCHANGED <<ostype, os, has_brew, failing_step, has_ffmpeg, has_tesseract,
                   missing_package, exit_status>>
    /\ UNCHANGED <<panelVars, scriptVars, clipVars, recapVars, pipeVars, uiVars>>

\* echo "Checking Python packages..."; the five python3 -c "import ..." all
\* succeed
VerifyPython ==
    /\ sh_pc = "python"
    /\ missing_package = "none"
    /\ output' = Append(output, "packages OK")
    /\ sh_pc' = "complete"
    /\ UNCHANGED <<ostype, os, has_brew, failing_step, has_ffmpeg, has_tesseract,
                   missing_package, exit_status>>
    /\ UNCHANGED <<panelVars, scriptVars, clipVars, recapVars, pipeVars, uiVars>>

\* One of the python3 -c "import ..." fails: set -e ends the script.
VerifyPythonFails ==
    /\ sh_pc = "python"
    /\ missing_package \in Packages
    /\ exit_status' = EXIT_FAILURE
    /\ sh_pc' = "exited"
    /\ UNCHANGED <<ostype, os, has_brew, failing_step, has_ffmpeg, has_tesseract,
                   missing_package, output>>
    /\ UNCHANGED <<panelVars, scriptVars, clipVars, recapVars, pipeVars, uiVars>>

\* echo "Setup complete!" and the usage notes; the script ends with status 0.
SetupComplete ==
    /\ sh_pc = "complete"
    /\ output' = Append(output, "Setup complete!")
    /\ exit_status' = 0
    /\ sh_pc' = "exited"
    /\ UNCHANGED <<ostype, os, has_brew, failing_step, has_ffmpeg, has_tesseract,
                   missing_package>>
    /\ UNCHANGED <<panelVars, scriptVars, clipVars, recapVars, pipeVars, uiVars>>

-----------------------------------------------------------------------------
(* Specifications, one per component                                       *)

InitPanels ==
    /\ page \in PageSizes
    /\ contours \in SeqsUpTo(ContourSet, MaxContours)
    /\ panels = << >>
    /\ dp_pc = "start"
    /\ IdleScript
    /\ IdleClip
    /\ IdleRecap
    /\ IdlePipe
    /\ IdleUI
    /\ IdleSetup

NextPanels == DetectPanels

SpecPanels == InitPanels /\ [][NextPanels]_vars

InitScript ==
    /\ panels_data \in SeqsUpTo(PanelDataSet, MaxPanelsData)
    /\ script_parts = << >>
    /\ script = << >>
    /\ rs_pc = "start"
    /\ IdlePanels
    /\ IdleClip
    /\ IdleRecap
    /\ IdlePipe
    /\ IdleUI
    /\ IdleSetup

NextScript == CreateRecapScript

SpecScript == InitScript /\ [][NextScript]_vars

InitClip ==
    /\ resolution \in Resolutions
    /\ image_size \in ImageSizes
    /\ duration \in 1..MaxDuration
    /\ zoom_start \in ZoomLevels
    /\ zoom_end \in ZoomLevels
    /\ pan_direction \in PanDirections
    /\ clip_size = [w |-> 0, h |-> 0]
    /\ frame = NoFrame
    /\ frame_log = << >>
    /\ kb_pc = "start"
    /\ IdlePanels
    /\ IdleScript
    /\ IdleRecap
    /\ IdlePipe
    /\ IdleUI
    /\ IdleSetup

NextClip == CreateKenBurnsClip \/ ZoomAndPan

SpecClip == InitClip /\ [][NextClip]_vars

SceneSet == [image : {1}, duration : SceneDurations]

InitRecap ==
    /\ scenes \in SeqsUpTo(SceneSet, MaxScenes)
    /\ audio_exists \in BOOLEAN
    /\ audio_duration \in AudioDurations
    /\ clips = << >>
    /\ video = [duration |-> 0, has_audio |-> FALSE]
    /\ written = FALSE
    /\ mr_pc = "start"
    /\ IdlePanels
    /\ IdleScript
    /\ IdleClip
    /\ IdlePipe
    /\ IdleUI
    /\ IdleSetup

NextRecap == CreateMangaRecap

SpecRecap == InitRecap /\ [][NextRecap]_vars

InitPipeline ==
    /\ images = << >>
    /\ ocr_texts = << >>
    /\ all_text = << >>
    /\ pl_script = << >>
    /\ temp_dir = FALSE
    /\ calls = << >>
    /\ error = NoError
    /\ missing_tool \in MissingTools
    /\ cancel_requested = FALSE
    /\ pl_pc = "extract"
    /\ IdlePanels
    /\ IdleScript
    /\ IdleClip
    /\ IdleRecap
    /\ IdleUI
    /\ IdleSetup

NextPipeline ==
    \/ ExtractPages
    \/ ExtractPagesFails
    \/ ProcessPage
    \/ DetectPanelsFails
    \/ OcrFails
    \/ JoinScript
    \/ GenerateNarration
    \/ GenerateNarrationFails
    \/ BuildScenes
    \/ CreateVideo
    \/ CreateVideoFails
    \/ RequestCancel

SpecPipeline == InitPipeline /\ [][NextPipeline]_vars

\* The component as first rendered: the useState initial values.
InitUI ==
    /\ uploadedFile = NoFile
    /\ activeTab = "upload"
    /\ expandedSection = "architecture"
    /\ copiedCode = "null"
    /\ processingSteps = InitialSteps
    /\ clipboard = "null"
    /\ timers = {}
    /\ now = 0
    /\ copied_at = 0
    /\ last_event = Event("none", << >>, "")
    /\ ui_pc = "mounted"
    /\ IdlePanels
    /\ IdleScript
    /\ IdleClip
    /\ IdleRecap
    /\ IdlePipe
    /\ IdleSetup

NextUI ==
    \/ SetActiveTab
    \/ ToggleSection
    \/ OnDrop
    \/ CopyToClipboard
    \/ TimeoutFires
    \/ Tick

SpecUI == InitUI /\ [][NextUI]_vars

\* A machine the script is started on.
InitSetup ==
    /\ ostype \in OsTypes
    /\ os = "unknown"
    /\ has_brew \in BOOLEAN
    /\ failing_step \in InstallSteps \cup {"none"}
    /\ has_ffmpeg \in BOOLEAN
    /\ has_tesseract \in BOOLEAN
    /\ missing_package \in Packages \cup {"none"}
    /\ output = << >>
    /\ exit_status = 0 - 1
    /\ sh_pc = "detect"
    /\ IdlePanels
    /\ IdleScript
    /\ IdleClip
    /\ IdleRecap
    /\ IdlePipe
    /\ IdleUI

NextSetup ==
    \/ DetectOS
    \/ InstallSystemDeps
    \/ InstallSystemDepsFails
    \/ CreateVenv
    \/ CreateVenvFails
    \/ InstallPythonDeps
    \/ InstallPythonDepsFails
    \/ VerifyFfmpeg
    \/ VerifyTesseract
    \/ VerifyPython
    \/ VerifyPythonFails
    \/ SetupComplete

SpecSetup == InitSetup /\ [][NextSetup]_vars

-----------------------------------------------------------------------------
(* C1: the list detect_panels returns is ordered by band ascending, and    *)
(* within one band by x descending, for every adjacent pair of panels.     *)
C1_ReadingOrder ==
    dp_pc = "done" =>
        \A i \in 1..(Len(panels) - 1) :
            /\ band(panels[i]) <= band(panels[i + 1])
            /\ band(panels[i]) = band(panels[i + 1])
                   => panels[i].x >= panels[i + 1].x

\* Three panels returned, spanning two bands, with two different x in one band.
C1_Witness ==
    /\ dp_pc = "done"
    /\ Len(panels) = 3
    /\ band(panels[1]) = band(panels[2])
    /\ panels[1].x > panels[2].x
    /\ band(panels[2]) < band(panels[3])
    /\ panels[1].image > panels[2].image

(* C6: when no contour reaches min_area the detector returns exactly one   *)
(* panel, the whole page, at rank 0 (first position); the returned list is *)
(* never empty.                                                            *)
C6_SyntheticFullPage ==
    dp_pc = "done" =>
        /\ panels # << >>
        /\ (\A i \in 1..Len(contours) : contours[i].area < min_area)
               => /\ Len(panels) = 1
                  /\ panels[1].x = 0 /\ panels[1].y = 0
                  /\ panels[1].width = page.w /\ panels[1].height = page.h

(* C7: create_recap_script emits exactly one unit per input panel, in      *)
(* panel order: the text of a panel that has text, a scene placeholder for *)
(* a panel with empty text; a non-empty panel list never gives an empty    *)
(* script.                                                                 *)
C7_OneUnitPerPanel ==
    rs_pc = "done" =>
        /\ Len(script_parts) = Len(panels_data)
        /\ \A i \in 1..Len(panels_data) :
               i <= Len(script_parts) =>
                   IF panels_data[i].text # ""
                   THEN script_parts[i] = [kind |-> "text", body |-> panels_data[i].text]
                   ELSE script_parts[i].kind = "scene"
        /\ panels_data # << >> => script # << >>

(* C8: the crop window computed at t = 0 has the dimensions of the target  *)
(* resolution divided by zoom_start, and at t = duration those of the      *)
(* target resolution divided by zoom_end, on both axes (whole pixels).     *)
C8_CropAtBoundaries ==
    kb_pc = "ready" =>
        /\ frame.t = 0 =>
              /\ frame.crop_w = IntTrunc(resolution.w * 10, zoom_start)
              /\ frame.crop_h = IntTrunc(resolution.h * 10, zoom_start)
        /\ frame.t = duration =>
              /\ frame.crop_w = IntTrunc(resolution.w * 10, zoom_end)
              /\ frame.crop_h = IntTrunc(resolution.h * 10, zoom_end)

\* A frame at the end of a clip longer than one tick whose zoom changes.
C8_Witness ==
    /\ kb_pc = "ready"
    /\ duration > 1
    /\ frame.t = duration
    /\ zoom_start # zoom_end
    /\ frame.crop_w = IntTrunc(resolution.w * 10, zoom_end)
    /\ frame.crop_w # IntTrunc(resolution.w * 10, zoom_start)

(* C9: at every time 0 <= t <= duration the crop window lies inside the    *)
(* resized source frame: 0 <= x_offset, x_offset + crop_w <= width,        *)
(* 0 <= y_offset and y_offset + crop_h <= height.                          *)
C9_CropInsideSource ==
    (kb_pc = "ready" /\ frame # NoFrame /\ frame.t >= 0 /\ frame.t <= duration) =>
        /\ 0 <= frame.x_offset
        /\ frame.x_offset + frame.crop_w <= clip_size.w
        /\ 0 <= frame.y_offset
        /\ frame.y_offset + frame.crop_h <= clip_size.h

(* C10: a horizontal pan moves the crop x-origin from 0 (progress 0) to    *)
(* width - crop_w (progress 1), reversed for 'left'; a vertical pan ('up', *)
(* 'down') moves the y-origin in the same way between 0 and                *)
(* height - crop_h.                                                        *)
C10_PanOffsets ==
    (kb_pc = "ready" /\ frame # NoFrame) =>
        /\ (pan_direction = "right" /\ frame.t = 0) => frame.x_offset = 0
        /\ (pan_direction = "right" /\ frame.t = duration)
               => frame.x_offset = clip_size.w - frame.crop_w
        /\ (pan_direction = "left" /\ frame.t = 0)
               => frame.x_offset = clip_size.w - frame.crop_w
        /\ (pan_direction = "left" /\ frame.t = duration) => frame.x_offset = 0
        /\ (pan_direction = "down" /\ frame.t = 0) => frame.y_offset = 0
        /\ (pan_direction = "down" /\ frame.t = duration)
               => frame.y_offset = clip_size.h - frame.crop_h
        /\ (pan_direction = "up" /\ frame.t = 0)
               => frame.y_offset = clip_size.h - frame.crop_h
        /\ (pan_direction = "up" /\ frame.t = duration) => frame.y_offset = 0

\* The sum of the scenes' durations as create_manga_recap reads them.
RECURSIVE SceneSum(_)
SceneSum(sc) ==
    IF sc = << >> THEN 0 ELSE SceneDuration(Head(sc)) + SceneSum(Tail(sc))

\* The least total the scenes can be trimmed to without taking any of them
\* below the floor: a scene already below the floor is left as it is.
RECURSIVE FlooredSum(_)
FlooredSum(sc) ==
    IF sc = << >> THEN 0
    ELSE (IF SceneDuration(Head(sc)) < DurationFloor
          THEN SceneDuration(Head(sc)) ELSE DurationFloor) + FlooredSum(Tail(sc))

(* C3: when the scene durations sum to less than the audio duration, the   *)
(* final scene's clip is extended by exactly the shortfall and every other *)
(* scene's clip keeps its duration.                                        *)
C3_ExtendFinalScene ==
    (mr_pc = "done" /\ audio_exists /\ scenes # << >>
       /\ SceneSum(scenes) < audio_duration) =>
        /\ clips[Len(clips)].duration =
               SceneDuration(scenes[Len(scenes)]) + (audio_duration - SceneSum(scenes))
        /\ \A i \in 1..(Len(scenes) - 1) :
               clips[i + 1].duration = SceneDuration(scenes[i])

(* C4: after create_manga_recap the video's total duration equals the      *)
(* audio duration whenever every scene can stay at or above the floor      *)
(* (number of scenes * floor <= audio duration).                           *)
C4_TotalEqualsAudio ==
    (mr_pc = "done" /\ audio_exists
       /\ Len(scenes) * DurationFloor <= audio_duration) =>
        video.duration = audio_duration

C2_AllocationSumsToAudio ==
    (pl_pc \in {"video", "done"} /\ Len(scenes) >= 1
       /\ Len(scenes) * DurationFloor <= audio_duration) =>
        /\ SceneSum(scenes) = audio_duration
        /\ \A i \in 1..Len(scenes) : SceneDuration(scenes[i]) >= DurationFloor

StageOf(op) ==
    CASE op = "extract" -> 1
      [] op = "detect"  -> 2
      [] op = "ocr"     -> 3
      [] op = "join"    -> 4
      [] op = "tts"     -> 5
      [] op = "scenes"  -> 6
      [] op = "clip"    -> 7
      [] op = "concat"  -> 8
      [] op = "write"   -> 9

(* C12: the run passes through the stages in their fixed order and each    *)
(* stage is a barrier: no work of a stage starts before all work of the    *)
(* preceding stages is over, so the stages of the work started so far      *)
(* never decrease; a run that has emitted went through every stage from    *)
(* Rasterized on.                                                          *)
C12_StageBarriers ==
    /\ \A i, j \in 1..Len(calls) :
           i < j => StageOf(calls[i].op) <= StageOf(calls[j].op)
    /\ pl_pc = "done" => calls # << >> /\ StageOf(calls[1].op) = 1

\* The positions in calls of the work of kind op.
CallsOf(op) == { i \in 1..Len(calls) : calls[i].op = op }

C14_DecodeFailureIsPagewise ==
    error.cause = "ImageDecodeFailure" => pl_pc # "failed"

\* The share of failed pages, in percent, above which a run may be aborted
\* (default 50%).
FailureThresholdPercent == 50

(* C15: the run is aborted because of a page failure only if the fraction  *)
(* of failed pages exceeds the threshold; the run aborted by an            *)
(* undecodable page had exactly that one failed page.                      *)
C15_AbortOnlyAboveThreshold ==
    (pl_pc = "failed" /\ error.op = "detect") =>
        1 * 100 > FailureThresholdPercent * Len(Prefix(images, PAGE_LIMIT))

C17_CancelStopsRun ==
    cancel_requested => (pl_pc # "done" /\ ~written)

(* C18: a run that fails because a required external tool is unavailable   *)
(* fails before any stage has started: no page has been rasterized and no  *)
(* collaborator has been invoked.                                          *)
C18_ToolCheckedPreflight ==
    error.cause = "ToolUnavailable" => (calls = << >> /\ images = << >>)

(* C19: the video's total duration equals the sum of its scenes'           *)
(* durations, and every scene clip has the duration its scene was given.   *)
C19_TotalIsSceneSum ==
    mr_pc = "done" =>
        /\ video.duration = SceneSum(scenes)
        /\ \A i \in 1..Len(scenes) : clips[i + 1].duration = SceneDuration(scenes[i])

\* The number of panels detected on the pages processed so far.
RECURSIVE TotalPanels(_)
TotalPanels(texts) ==
    IF texts = << >> THEN 0 ELSE Len(Head(texts)) + TotalPanels(Tail(texts))

(* C20: there is one narration unit and one scene per panel: the number of *)
(* scenes that receive a duration equals the number of narration units and *)
(* the number of panels.                                                   *)
C20_SceneUnitCorrespondence ==
    pl_pc \in {"video", "done"} =>
        /\ Len(scenes) = Len(all_text)
        /\ Len(all_text) = TotalPanels(ocr_texts)

C23_EqualShares ==
    (pl_pc \in {"video", "done"} /\ Len(scenes) >= 1
       /\ Len(scenes) * DurationFloor <= audio_duration) =>
        \A i \in 1..Len(scenes) :
            SceneDuration(scenes[i]) * Len(scenes) = audio_duration

\* The bounding box of panel a lies fully inside the bounding box of panel b
\* and is not the same box.
ContainedIn(a, b) ==
    /\ a.x >= b.x
    /\ a.y >= b.y
    /\ a.x + a.width <= b.x + b.width
    /\ a.y + a.height <= b.y + b.height
    /\ <<a.x, a.y, a.width, a.height>> # <<b.x, b.y, b.width, b.height>>

(* C24: no panel returned by detect_panels has its bounding box fully      *)
(* contained inside the bounding box of another returned panel.            *)
C24_NoNestedPanels ==
    dp_pc = "done" =>
        \A i, j \in 1..Len(panels) : ~ContainedIn(panels[i], panels[j])

\* The smaller and the larger of two numbers.
Least(a, b) == IF a < b THEN a ELSE b

Greatest(a, b) == IF a < b THEN b ELSE a

(* C25: for every requested time t, also t < 0 and t > duration, the zoom  *)
(* used lies between zoom_start and zoom_end (the crop window is no larger *)
(* than at the smaller zoom and no smaller than at the larger one) and the *)
(* pan offsets lie between 0 and source size minus crop size.              *)
C25_ProgressClamped ==
    (kb_pc = "ready" /\ frame # NoFrame) =>
        /\ frame.crop_w >= IntTrunc(resolution.w * 10, Greatest(zoom_start, zoom_end))
        /\ frame.crop_w <= IntTrunc(resolution.w * 10, Least(zoom_start, zoom_end))
        /\ frame.crop_h >= IntTrunc(resolution.h * 10, Greatest(zoom_start, zoom_end))
        /\ frame.crop_h <= IntTrunc(resolution.h * 10, Least(zoom_start, zoom_end))
        /\ 0 <= frame.x_offset
        /\ frame.x_offset <= clip_size.w - frame.crop_w
        /\ 0 <= frame.y_offset
        /\ frame.y_offset <= clip_size.h - frame.crop_h

(* C26: two returned panels with the same band index and the same x keep   *)
(* the order in which their contours were detected.                        *)
C26_StableTies ==
    dp_pc = "done" =>
        \A i, j \in 1..Len(panels) :
            (i < j /\ band(panels[i]) = band(panels[j]) /\ panels[i].x = panels[j].x)
                => panels[i].image < panels[j].image

\* Three panels of one band, the two at x = 0 detected around the one at
\* x = 150 and differing in y: the sort moves the one at x = 150 to the
\* front and leaves the tied two in detection order.
C26_Witness ==
    /\ dp_pc = "done"
    /\ Len(panels) = 3
    /\ panels[1].x = 150
    /\ panels[2].x = 0 /\ panels[3].x = 0
    /\ band(panels[1]) = 0 /\ band(panels[2]) = 0 /\ band(panels[3]) = 0
    /\ panels[2].y # panels[3].y
    /\ panels[2].image = 1 /\ panels[1].image = 2 /\ panels[3].image = 3

(* C27: after copyToClipboard(code, id) copiedCode equals id until 2000 ms *)
(* after that call, whatever other clicks and timeouts happen in between,  *)
(* and is null once the 2000 ms have passed.                               *)
C27_CopiedIndicator ==
    (ui_pc = "mounted" /\ clipboard # "null") =>
        /\ now < copied_at + COPIED_TIMEOUT => copiedCode = clipboard
        /\ now > copied_at + COPIED_TIMEOUT => copiedCode = "null"

(* C28: in every reachable state of the page all five processing steps     *)
(* (extract, analyze, script, voice, video) have status 'pending'.         *)
C28_StepsStayPending ==
    ui_pc = "mounted" =>
        /\ Len(processingSteps) = 5
        /\ \A i \in 1..5 :
              /\ processingSteps[i].id = StepIds[i]
              /\ processingSteps[i].status = "pending"

\* The pipeline panel is shown (a file is uploaded, the upload tab is
\* active) after a copy was made and its timeout has run.
C28_Witness ==
    /\ ui_pc = "mounted"
    /\ uploadedFile # NoFile
    /\ activeTab = "upload"
    /\ clipboard # "null"
    /\ timers = {}
    /\ now >= COPIED_TIMEOUT
    /\ \A i \in 1..5 : processingSteps[i].status = "pending"

\* The state of the page that a handler can change.
uiState == <<uploadedFile, activeTab, expandedSection, copiedCode,
             processingSteps, clipboard, timers>>

\* The files of the drop are empty or start with a file that is not a PDF.
RejectedDrop(e) ==
    /\ e.kind = "drop"
    /\ IF e.files = << >> THEN TRUE ELSE e.files[1].type # PDF_TYPE

(* C29: uploadedFile changes only in onDrop and only to a first dropped    *)
(* file of type application/pdf; a drop that is empty or whose first file  *)
(* has another type changes nothing of the page's state; and uploadedFile  *)
(* never returns to null once set.                                         *)
C29_UploadOnlyByPdfDrop ==
    [][ui_pc = "mounted" =>
          /\ uploadedFile' # uploadedFile =>
                /\ last_event'.kind = "drop"
                /\ ~RejectedDrop(last_event')
                /\ uploadedFile' = last_event'.files[1]
          /\ RejectedDrop(last_event') => UNCHANGED uiState
          /\ uploadedFile # NoFile => uploadedFile' # NoFile]_vars

\* A picture followed by a PDF was dropped onto a page that holds another
\* PDF: the PDF the page held is still there.
C29_Witness ==
    /\ ui_pc = "mounted"
    /\ uploadedFile = [id |-> 2, type |-> PDF_TYPE]
    /\ last_event.kind = "drop"
    /\ Len(last_event.files) = 2
    /\ last_event.files[1].type = "image/png"
    /\ last_event.files[2] = [id |-> 1, type |-> PDF_TYPE]

\* The script has echoed msg.
Echoed(msg) == \E i \in 1..Len(output) : output[i] = msg

(* C30: setup.sh echoes 'Setup complete!' only if every verification of    *)
(* stage [4/4] succeeded: ffmpeg and tesseract are present and the five    *)
(* Python packages can be imported.                                        *)
C30_CompleteOnlyIfVerified ==
    Echoed("Setup complete!") =>
        /\ has_ffmpeg
        /\ has_tesseract
        /\ missing_package = "none"

=============================================================================
